---- MODULE Spec2Model ----
(***************************************************************************)
(* Hamming codec of src/hamming.py: wrap, get_control_bits,                *)
(* get_matrix_transform, hamming_encode and hamming_decode.                *)
(*                                                                         *)
(* Strings of '0'/'1' characters and numpy bit vectors are sequences over  *)
(* {0,1}; a text is a sequence of code points.  Positions are 1-based, as  *)
(* in the codeword numbering of the program (Python index + 1).            *)
(***************************************************************************)
EXTENDS Integers, Sequences, FiniteSets, TLC

VARIABLES pc, block_length, string, k, control_bits, matrix_transform,
          encoded_str, received, flips, decoded_str, report, codes

vars == <<pc, block_length, string, k, control_bits, matrix_transform,
          encoded_str, received, flips, decoded_str, report, codes>>

(***************************************************************************)
(* Bounds of the model.                                                    *)
(***************************************************************************)
MaxLen == 3

MaxFlips == 2

MaxBlockLength == 40

\* Code points the texts are drawn from (a subset of 0..255).
Chars == {0, 65, 190, 255}

\* Block lengths the codec is run with: below 8, multiples of 8, and
\* block lengths that are not byte aligned.
BlockLengths == {4, 7, 8, 12, 16, 20, 24}

\* Block lengths of the transmissions through the channel.
ChannelBlockLengths == {8, 12, 16}

(***************************************************************************)
(* Python / numpy primitives used by the program.                          *)
(***************************************************************************)
Min(a, b) == IF a < b THEN a ELSE b

\* tuple(...) / list(...) / np.array(...) : the elements, materialised
List(s) == s \o <<>>

\* s[::-1]
Reverse(s) == List([i \in 1..Len(s) |-> s[Len(s) + 1 - i]])

\* s[:m] with Python's clamping of the slice bound
Take(s, m) == SubSeq(s, 1, Min(m, Len(s)))

\* s[m:]
Drop(s, m) == SubSeq(s, m + 1, Len(s))

\* bin(v)[2::] : binary digits of v, most significant first, "0" for 0
RECURSIVE Bin(_)
Bin(v) == IF v < 2 THEN <<v>> ELSE Append(Bin(v \div 2), v % 2)

\* str.zfill(width) on a string of binary digits: pad with '0' on the left
Zfill(s, width) ==
    IF Len(s) >= width THEN s
    ELSE [i \in 1..(width - Len(s)) |-> 0] \o s

\* int(s, 2) : value of a string of binary digits, most significant first
RECURSIVE BinToInt(_)
BinToInt(s) ==
    IF Len(s) = 0 THEN 0
    ELSE 2 * BinToInt(SubSeq(s, 1, Len(s) - 1)) + s[Len(s)]

\* math.ceil(math.log2(x)) for an integer x >= 1
CeilLog2(x) == CHOOSE c \in 0..x : 2^c >= x /\ \A d \in 0..(c - 1) : 2^d < x

\* list.pop(i) in place of list.pop(i - 1)
PopOffByOne(s, i) == SubSeq(s, 1, i) \o SubSeq(s, i + 2, Len(s))

\* list.pop(i - 1) : remove the element at 1-based position i
Pop(s, i) == SubSeq(s, 1, i - 1) \o SubSeq(s, i + 1, Len(s))

RECURSIVE Flatten(_)
Flatten(ss) == IF Len(ss) = 0 THEN <<>> ELSE Head(ss) \o Flatten(Tail(ss))

RECURSIVE SumTo(_, _)
SumTo(f, m) == IF m = 0 THEN 0 ELSE SumTo(f, m - 1) + f[m]

(***************************************************************************)
(* wrap(string, number), for number > 0 (range() raises ValueError on a    *)
(* zero step; the caller below models that case).                          *)
(***************************************************************************)
\* only the full chunks, the short final chunk dropped
wrapFullOnly(s, number) ==
    List([c \in 1..(Len(s) \div number) |->
            SubSeq(s, (c - 1) * number + 1, c * number)])

wrap(s, number) ==
    List([c \in 1..((Len(s) + number - 1) \div number) |->
            SubSeq(s, (c - 1) * number + 1, Min(c * number, Len(s)))])

(***************************************************************************)
(* get_control_bits                                                        *)
(***************************************************************************)
\* while k < math.log2(block_length + k + 1)
LoopCond(n, kk) == 2^kk < n + kk + 1

\* k = math.ceil(math.log2(k + block_length + 1))
LoopBody(n, kk) == CeilLog2(kk + n + 1)

\* range(1, k + 1) in place of range(k)
ControlTupleFromOne(kk) == List([i \in 1..kk |-> 2^i])

\* tuple(2 ** i for i in range(k))
ControlTuple(kk) == List([i \in 1..kk |-> 2^(i - 1)])

RECURSIVE ControlLoop(_, _)
ControlLoop(n, kk) ==
    IF LoopCond(n, kk) THEN ControlLoop(n, LoopBody(n, kk)) ELSE kk

get_control_bits(n) == ControlTuple(ControlLoop(n, 0))

(***************************************************************************)
(* get_matrix_transform                                                    *)
(***************************************************************************)
\* the digits left most significant first (no [::-1])
BinValueMsbFirst(index, kk) == Zfill(Bin(index), kk)

\* list(map(int, bin(index)[2::].zfill(k)))[::-1]
BinValue(index, kk) == Reverse(Zfill(Bin(index), kk))

\* the row assignment matrix_transform[index - 1] = bin_value needs a list
\* of exactly k entries (numpy raises ValueError otherwise)
MatrixFits(n, kk) == \A index \in 1..(n + kk) : Len(BinValue(index, kk)) = kk

\* the (block_length + k) x k array, transposed: [row i][column j]
get_matrix_transform(n, kk) ==
    LET rows == List([index \in 1..(n + kk) |-> BinValue(index, kk)])
    IN  List([i \in 1..kk |-> List([j \in 1..(n + kk) |-> rows[j][i]])])

\* np.dot(matrix_transform, code) % 2.  The product is computed in the
\* result type of the operands, so it wraps modulo 2^width before the
\* reduction modulo 2: uint8 x uint8 -> uint8 in the decoder (width 8),
\* uint8 x int8 -> int16 in the encoder (width 16).
Dot(matrix, code, width) ==
    List([i \in 1..Len(matrix) |->
        ((SumTo(List([j \in 1..Len(code) |-> matrix[i][j] * code[j]]), Len(code))
            % (2^width)) % 2)])

(***************************************************************************)
(* hamming_encode                                                          *)
(***************************************************************************)
\* bin_char += bin(ord(char))[2::].zfill(8), for each char of the group
BinChars(chars) ==
    Flatten(List([i \in 1..Len(chars) |-> Zfill(Bin(chars[i]), 8)]))

\* padding on the right (ljust) in place of zfill
PadBlockRight(bin_char, n) ==
    IF Len(bin_char) >= n THEN bin_char
    ELSE bin_char \o [i \in 1..(n - Len(bin_char)) |-> 0]

\* if len(bin_char) != block_length: bin_char = bin_char.zfill(block_length)
PadBlock(bin_char, n) ==
    IF Len(bin_char) # n THEN Zfill(bin_char, n) ELSE bin_char

\* the placeholder inserted one position too far: bin_char[:bit] ...
InsertZeroAfter(bin_char, bit) ==
    Take(bin_char, bit) \o <<0>> \o Drop(bin_char, bit)

\* bin_char = f"{bin_char[:bit - 1:]}0{bin_char[bit - 1::]}"
InsertZero(bin_char, bit) ==
    Take(bin_char, bit - 1) \o <<0>> \o Drop(bin_char, bit - 1)

\* for bit in control_bits: (insert), from the i-th control bit on
RECURSIVE AddControlBits(_, _, _)
AddControlBits(bin_char, cb, i) ==
    IF i > Len(cb) THEN bin_char
    ELSE AddControlBits(InsertZero(bin_char, cb[i]), cb, i + 1)

\* the coefficients paired with the control bits in the opposite order
RECURSIVE SetControlBitsReversed(_, _, _, _)
SetControlBitsReversed(bin_char, cb, r_coffs, i) ==
    IF i > Len(cb) THEN bin_char
    ELSE SetControlBitsReversed(
             [bin_char EXCEPT ![cb[i]] = r_coffs[Len(cb) + 1 - i]],
             cb, r_coffs, i + 1)

\* for bit, coff in zip(control_bits, r_coffs): bin_char[bit-1] = coff
RECURSIVE SetControlBits(_, _, _, _)
SetControlBits(bin_char, cb, r_coffs, i) ==
    IF i > Len(cb) THEN bin_char
    ELSE SetControlBits([bin_char EXCEPT ![cb[i]] = r_coffs[i]],
                        cb, r_coffs, i + 1)

\* body of the loop over wrap(string, delta)
EncodeBlock(chars, n, cb, matrix) ==
    LET bin_char == AddControlBits(PadBlock(BinChars(chars), n), cb, 1)
        r_coffs  == Dot(matrix, bin_char, 16)
    IN  SetControlBits(bin_char, cb, r_coffs, 1)

\* hamming_encode(string, block_length), for block_length // 8 > 0
hamming_encode(s, n) ==
    LET cb     == get_control_bits(n)
        matrix == get_matrix_transform(n, Len(cb))
        groups == wrap(s, n \div 8)
    IN  Flatten(List([b \in 1..Len(groups) |->
                         EncodeBlock(groups[b], n, cb, matrix)]))

(***************************************************************************)
(* hamming_decode                                                          *)
(***************************************************************************)
\* the syndrome read without the reversal
SyndromeIndexUnreversed(syndrome) == BinToInt(syndrome)

\* index = int(''.join(map(str, syndrome[::-1])), 2)
SyndromeIndex(syndrome) == BinToInt(Reverse(syndrome))

\* the elif with an inclusive upper bound: 0 < index <= block_length + k
StatusInclusive(index, n, kk) ==
    IF index = 0 THEN "none"
    ELSE IF 0 < index /\ index <= n + kk THEN "fixed"
    ELSE "uncorrectable"

\* the if / elif / else of the error correction: the message printed
Status(index, n, kk) ==
    IF index = 0 THEN "none"
    ELSE IF 0 < index /\ index < n + kk THEN "fixed"
    ELSE "uncorrectable"

\* code[index - 1] ^= 1 in the elif branch only
Correct(code, index, n, kk) ==
    IF Status(index, n, kk) = "fixed"
    THEN [code EXCEPT ![index] = 1 - code[index]]
    ELSE code

\* for index in control_bits[::-1]: code.pop(index-1)
RECURSIVE RemoveControlBits(_, _, _)
RemoveControlBits(code, cb, i) ==
    IF i = 0 THEN code
    ELSE RemoveControlBits(Pop(code, cb[i]), cb, i - 1)

\* for bin_char in wrap(code, 8): decoded_str += chr(int(bin_char, 2))
ToChars(code) ==
    LET chunks == wrap(code, 8)
    IN  List([c \in 1..Len(chunks) |-> BinToInt(chunks[c])])

\* body of the loop over wrap(string, block_length + k)
DecodeBlock(code, n, cb, matrix) ==
    LET index == SyndromeIndex(Dot(matrix, code, 8))
        fixed == Correct(code, index, n, Len(cb))
    IN  [index  |-> index,
         status |-> Status(index, n, Len(cb)),
         code   |-> fixed,
         chars  |-> ToChars(RemoveControlBits(fixed, cb, Len(cb)))]

\* the per-block results of hamming_decode(string, block_length)
DecodeBlocks(s, n) ==
    LET cb     == get_control_bits(n)
        matrix == get_matrix_transform(n, Len(cb))
        blocks == wrap(s, n + Len(cb))
    IN  List([b \in 1..Len(blocks) |-> DecodeBlock(blocks[b], n, cb, matrix)])

\* the string hamming_decode returns
hamming_decode(s, n) ==
    LET res == DecodeBlocks(s, n)
    IN  Flatten(List([b \in 1..Len(res) |-> res[b].chars]))

(***************************************************************************)
(* The codec as a state machine: a text is encoded and the result is       *)
(* decoded (Spec); in a transmission (SpecChannel) the channel flips up to *)
(* MaxFlips bits of one block in between.                                  *)
(***************************************************************************)
Texts == UNION {[1..l -> Chars] : l \in 0..MaxLen}

\* the messages transmitted: "A", "A\xbe", "A\xbeA", ...
ChannelTexts ==
    {[i \in 1..l |-> IF i % 2 = 1 THEN 65 ELSE 190] : l \in 1..MaxLen}

\* block (1-based) that position p of a string of m-bit blocks lies in
BlockOf(p, m) == ((p - 1) \div m) + 1

\* position of p inside its block
PosIn(p, m) == ((p - 1) % m) + 1

Init ==
    /\ pc = "start"
    /\ block_length \in BlockLengths
    /\ string \in Texts
    /\ k = 0
    /\ control_bits = <<>>
    /\ matrix_transform = <<>>
    /\ encoded_str = <<>>
    /\ received = <<>>
    /\ flips = {}
    /\ decoded_str = <<>>
    /\ report = <<>>
    /\ codes = <<>>

\* hamming_encode with block_length < 8: delta = 0 and wrap(string, 0)
\* raises ValueError (range() step of zero) after the layout was computed
EncodeRaise ==
    /\ pc = "start"
    /\ block_length \div 8 = 0
    /\ control_bits' = get_control_bits(block_length)
    /\ k' = Len(control_bits')
    /\ matrix_transform' = get_matrix_transform(block_length, k')
    /\ pc' = "error"
    /\ UNCHANGED <<block_length, string, encoded_str, received, flips,
                   decoded_str, report, codes>>

Encode ==
    /\ pc = "start"
    /\ block_length \div 8 > 0
    /\ control_bits' = get_control_bits(block_length)
    /\ k' = Len(control_bits')
    /\ matrix_transform' = get_matrix_transform(block_length, k')
    /\ encoded_str' = hamming_encode(string, block_length)
    /\ received' = encoded_str'
    /\ pc' = "encoded"
    /\ UNCHANGED <<block_length, string, flips, decoded_str, report, codes>>

\* the channel between encoder and decoder flips bit p
Flip(p) ==
    /\ pc = "encoded"
    /\ Cardinality(flips) < MaxFlips
    /\ p \notin flips
    /\ \A q \in flips : BlockOf(q, block_length + k) = BlockOf(p, block_length + k)
    /\ received' = [received EXCEPT ![p] = 1 - received[p]]
    /\ flips' = flips \cup {p}
    /\ UNCHANGED <<pc, block_length, string, k, control_bits, matrix_transform,
                   encoded_str, decoded_str, report, codes>>

Decode ==
    /\ pc = "encoded"
    /\ control_bits' = get_control_bits(block_length)
    /\ k' = Len(control_bits')
    /\ matrix_transform' = get_matrix_transform(block_length, k')
    /\ \E res \in {DecodeBlocks(received, block_length)} :
           /\ report' = [b \in 1..Len(res) |->
                            [status |-> res[b].status, index |-> res[b].index]]
           /\ codes' = [b \in 1..Len(res) |-> res[b].code]
           /\ decoded_str' = Flatten(List([b \in 1..Len(res) |-> res[b].chars]))
    /\ pc' = "decoded"
    /\ UNCHANGED <<block_length, string, encoded_str, received, flips>>

Next ==
    \/ EncodeRaise
    \/ Encode
    \/ Decode

Spec == Init /\ [][Next]_vars

InitChannel ==
    /\ pc = "start"
    /\ block_length \in ChannelBlockLengths
    /\ string \in ChannelTexts
    /\ k = 0
    /\ control_bits = <<>>
    /\ matrix_transform = <<>>
    /\ encoded_str = <<>>
    /\ received = <<>>
    /\ flips = {}
    /\ decoded_str = <<>>
    /\ report = <<>>
    /\ codes = <<>>

NextChannel ==
    \/ Encode
    \/ \E p \in 1..Len(received) : Flip(p)
    \/ Decode

SpecChannel == InitChannel /\ [][NextChannel]_vars

(***************************************************************************)
(* The layout computation on its own, for every block length up to         *)
(* MaxBlockLength: the loop of get_control_bits, one iteration per step,   *)
(* then get_matrix_transform.  The loop runs without interruption, hence    *)
(* the weak fairness of its steps.                                         *)
(***************************************************************************)
InitLayout ==
    /\ pc = "control_bits"
    /\ block_length \in 1..MaxBlockLength
    /\ string = <<>>
    /\ k = 0
    /\ control_bits = <<>>
    /\ matrix_transform = <<>>
    /\ encoded_str = <<>>
    /\ received = <<>>
    /\ flips = {}
    /\ decoded_str = <<>>
    /\ report = <<>>
    /\ codes = <<>>

\* one iteration of the while loop of get_control_bits
LoopStep ==
    /\ pc = "control_bits"
    /\ LoopCond(block_length, k)
    /\ k' = LoopBody(block_length, k)
    /\ UNCHANGED <<pc, block_length, string, control_bits, matrix_transform,
                   encoded_str, received, flips, decoded_str, report, codes>>

\* the loop condition fails: build and return the tuple
LoopExit ==
    /\ pc = "control_bits"
    /\ ~LoopCond(block_length, k)
    /\ control_bits' = ControlTuple(k)
    /\ pc' = "matrix"
    /\ UNCHANGED <<block_length, string, k, matrix_transform,
                   encoded_str, received, flips, decoded_str, report, codes>>

\* get_matrix_transform(block_length, len(control_bits))
MatrixTransform ==
    /\ pc = "matrix"
    /\ IF MatrixFits(block_length, Len(control_bits))
       THEN /\ matrix_transform' =
                  get_matrix_transform(block_length, Len(control_bits))
            /\ pc' = "layout_done"
       ELSE /\ pc' = "error"
            /\ UNCHANGED matrix_transform
    /\ UNCHANGED <<block_length, string, k, control_bits,
                   encoded_str, received, flips, decoded_str, report, codes>>

NextLayout == LoopStep \/ LoopExit \/ MatrixTransform

SpecLayout ==
    InitLayout /\ [][NextLayout]_vars /\ WF_vars(LoopStep \/ LoopExit)

(***************************************************************************)
(* Notions the properties are stated with, defined without the program's   *)
(* operators.                                                              *)
(***************************************************************************)
\* the smallest non-negative kk with 2^kk >= n + kk + 1
MinK(n) ==
    CHOOSE kk \in 0..(n + 1) :
        /\ 2^kk >= n + kk + 1
        /\ \A j \in 0..(kk - 1) : 2^j < n + j + 1

\* bit i (0 = least significant) of the number j
BitOf(j, i) == (j \div (2^i)) % 2

IsPowerOfTwo(j) == \E i \in 0..j : 2^i = j

\* C5: get_control_bits terminates, its candidate k never exceeds the
\* smallest kk with 2^kk >= n + kk + 1, and it returns the ascending tuple
\* (2^0, ..., 2^(kk-1)) for that smallest kk; (1, 2, 4, 8) for n = 8.
C5_ParityCount ==
    /\ [](/\ k <= MinK(block_length)
          /\ pc # "control_bits" =>
                /\ k = MinK(block_length)
                /\ Len(control_bits) = MinK(block_length)
                /\ \A i \in 1..Len(control_bits) : control_bits[i] = 2^(i - 1)
                /\ block_length = 8 => control_bits = <<1, 2, 4, 8>>)
    /\ <>(pc # "control_bits")

C5_Witness ==
    /\ pc = "matrix"
    /\ block_length = 8
    /\ control_bits = <<1, 2, 4, 8>>

\* C6: the matrix has k rows and n+k columns of 0/1 entries, the entry in
\* row i (0-based) and column j (1-based) is bit i of j, and the column at
\* each parity position 2^i has exactly one set bit, in row i.
C6_Matrix ==
    /\ pc # "error"
    /\ pc = "layout_done" =>
        LET kk == Len(control_bits)
            m  == block_length + kk
        IN  /\ Len(matrix_transform) = kk
            /\ \A i \in 1..kk :
                  /\ Len(matrix_transform[i]) = m
                  /\ \A j \in 1..m :
                        matrix_transform[i][j] = BitOf(j, i - 1)
                  /\ {r \in 1..kk : matrix_transform[r][2^(i - 1)] = 1} = {i}

C6_Witness ==
    /\ pc = "layout_done"
    /\ block_length = 8
    /\ Len(matrix_transform) = 4
    /\ matrix_transform[3][12] = 1
    /\ matrix_transform[1][12] = 0

(***************************************************************************)
(* Notions for the properties of the codec.                                *)
(***************************************************************************)
\* a \div b rounded up
CeilDiv(a, b) == (a + b - 1) \div b

RECURSIVE Xor(_, _)
Xor(a, b) ==
    IF a = 0 /\ b = 0 THEN 0
    ELSE (((a % 2) + (b % 2)) % 2) + 2 * Xor(a \div 2, b \div 2)

RECURSIVE SumOver(_, _)
SumOver(f, S) ==
    IF S = {} THEN 0
    ELSE LET x == CHOOSE y \in S : TRUE IN f[x] + SumOver(f, S \ {x})

\* the 8 bits of a code point, most significant first
Bits8(c) == [i \in 1..8 |-> BitOf(c, 8 - i)]

\* the unsigned value spelled by a bit sequence, most significant first
BitsValue(bits) ==
    SumOver([i \in 1..Len(bits) |-> bits[i] * 2^(Len(bits) - i)], 1..Len(bits))

\* the positions 1..m that are not powers of two, ascending
DataPositions(m) ==
    SelectSeq([j \in 1..m |-> j], LAMBDA j : ~IsPowerOfTwo(j))

\* the bits of a block at its non-parity positions up to m, in order
RECURSIVE DataBitsUpTo(_, _)
DataBitsUpTo(block, m) ==
    IF m = 0 THEN <<>>
    ELSE IF IsPowerOfTwo(m) THEN DataBitsUpTo(block, m - 1)
    ELSE Append(DataBitsUpTo(block, m - 1), block[m])

DataBits(block) == DataBitsUpTo(block, Len(block))

\* the characters spelled by data bits, 8 bits per character (the last
\* character from the remaining bits when there are fewer than 8)
CharsOf(bits) ==
    [c \in 1..CeilDiv(Len(bits), 8) |->
        BitsValue(SubSeq(bits, 8 * (c - 1) + 1, Min(8 * c, Len(bits))))]

\* the syndrome value of a block: the XOR of the positions of its set bits
RECURSIVE XorPositions(_, _)
XorPositions(block, m) ==
    IF m = 0 THEN 0
    ELSE Xor(XorPositions(block, m - 1), IF block[m] = 1 THEN m ELSE 0)

\* codeword length, number of blocks, b-th block of a bit string
CodeLen == block_length + k

NBlocks == Len(received) \div CodeLen

Block(s, b) == SubSeq(s, (b - 1) * CodeLen + 1, b * CodeLen)

\* the characters hamming_decode produced for block b
DecodedOf(b) ==
    SubSeq(decoded_str, (b - 1) * CeilDiv(block_length, 8) + 1,
                        b * CeilDiv(block_length, 8))

\* the positions inside block b that the channel flipped
FlipsIn(b) == {PosIn(p, CodeLen) : p \in {q \in flips : BlockOf(q, CodeLen) = b}}

\* the b-th group of characters the encoder takes from the text
Group(b) ==
    SubSeq(string, (b - 1) * (block_length \div 8) + 1,
                   Min(b * (block_length \div 8), Len(string)))

\* the data bits of group b: its characters' bits, zeros in front up to n
GroupBits(b) ==
    LET bits == [i \in 1..(8 * Len(Group(b))) |->
                    Bits8(Group(b)[((i - 1) \div 8) + 1])[((i - 1) % 8) + 1]]
    IN  [i \in 1..block_length |->
            IF i <= block_length - Len(bits) THEN 0
            ELSE bits[i - (block_length - Len(bits))]]

Zeros(m) == [i \in 1..m |-> 0]

\* the bits of a sequence of characters, 8 per character
CharsBits(cs) ==
    [i \in 1..(8 * Len(cs)) |-> Bits8(cs[((i - 1) \div 8) + 1])[((i - 1) % 8) + 1]]

\* C1: with a block length that is a multiple of 8 and a text whose bit
\* length is a multiple of the block length, decoding the unchanged
\* encoder output gives the text back.
C1_RoundTrip ==
    (/\ pc = "decoded"
     /\ flips = {}
     /\ block_length % 8 = 0
     /\ (8 * Len(string)) % block_length = 0)
    => decoded_str = string

C1_Witness ==
    /\ pc = "decoded"
    /\ flips = {}
    /\ block_length = 24
    /\ string = <<0, 65, 255>>
    /\ decoded_str = <<0, 65, 255>>

\* C2: flipping any one bit p of a codeword, the last position n+k
\* included, decodes to the same text as the unmodified codeword, and the
\* block is reported as corrected at position p.
C2_SingleErrorCorrected ==
    pc = "decoded" =>
        \A b \in 1..NBlocks : \A p \in FlipsIn(b) :
            FlipsIn(b) = {p} =>
                /\ decoded_str = hamming_decode(encoded_str, block_length)
                /\ report[b] = [status |-> "fixed", index |-> p]

\* C3: a block whose syndrome value is at least n+k is reported as
\* uncorrectable, is left as received, and its data bits are decoded as
\* they are; decoding completes without an error.
C3_PassThrough ==
    pc = "decoded" =>
        \A b \in 1..NBlocks :
            XorPositions(Block(received, b), CodeLen) >= CodeLen =>
                /\ report[b].status = "uncorrectable"
                /\ codes[b] = Block(received, b)
                /\ DecodedOf(b) = CharsOf(DataBits(Block(received, b)))

C3_Witness ==
    /\ pc = "decoded"
    /\ \E b \in 1..NBlocks :
          /\ XorPositions(Block(received, b), CodeLen) = CodeLen
          /\ report[b].status = "uncorrectable"
          /\ codes[b] = Block(received, b)

\* C4 as stated: for every positive block length the encoder returns a
\* bit string of length ceil(len(text)*8 / block_length) * (block_length+k).
C4_LengthAsStated ==
    pc = "encoded" =>
        Len(encoded_str) =
            CeilDiv(8 * Len(string), block_length)
                * (block_length + MinK(block_length))

\* C4 amended: the encoder raises for a block length below 8; for a block
\* length of at least 8 it returns a string of 0/1 of length
\* ceil(len(text) / (block_length // 8)) * (block_length + k), which is
\* ceil(len(text)*8 / block_length) * (block_length + k) when the block
\* length is a multiple of 8.
C4_Length ==
    pc # "start" =>
        /\ pc = "error" <=> block_length < 8
        /\ pc # "error" =>
            /\ \A i \in 1..Len(encoded_str) : encoded_str[i] \in {0, 1}
            /\ Len(encoded_str) =
                  CeilDiv(Len(string), block_length \div 8)
                      * (block_length + MinK(block_length))
            /\ block_length % 8 = 0 =>
                  Len(encoded_str) =
                      CeilDiv(8 * Len(string), block_length)
                          * (block_length + MinK(block_length))

C4_Witness ==
    /\ pc = "encoded"
    /\ block_length = 12
    /\ Len(string) = 3
    /\ Len(encoded_str) = 51

\* C7: every block the encoder emits has a zero syndrome under the
\* parity-check matrix, and decoding the unchanged output reports no error
\* for every block and flips no bit.
C7_ZeroSyndrome ==
    /\ pc \in {"encoded", "decoded"} =>
          \A b \in 1..(Len(encoded_str) \div CodeLen) : \A i \in 1..k :
              SumOver([j \in 1..CodeLen |->
                          matrix_transform[i][j] * Block(encoded_str, b)[j]],
                      1..CodeLen) % 2 = 0
    /\ (pc = "decoded" /\ flips = {}) =>
          \A b \in 1..NBlocks :
              /\ report[b].status = "none"
              /\ codes[b] = Block(encoded_str, b)

C7_Witness ==
    /\ pc = "decoded"
    /\ flips = {}
    /\ block_length = 8
    /\ string = <<65>>
    /\ report = <<[status |-> "none", index |-> 0]>>
    /\ decoded_str = <<65>>

\* C8: every emitted block has n+k bits, the parity positions are the
\* powers of two 2^0..2^(k-1), the n data bits sit in order at the other
\* positions (3,5,6,7,9,10,11,12 for n = 8), and the decoder's stripping
\* returns the bits at exactly those positions.
C8_Layout ==
    /\ pc \in {"encoded", "decoded"} =>
          /\ Len(encoded_str) = CeilDiv(Len(string), block_length \div 8) * CodeLen
          /\ {control_bits[i] : i \in 1..k} = {j \in 1..CodeLen : IsPowerOfTwo(j)}
          /\ Len(DataPositions(CodeLen)) = block_length
          /\ block_length = 8 =>
                DataPositions(CodeLen) = <<3, 5, 6, 7, 9, 10, 11, 12>>
          /\ \A b \in 1..(Len(encoded_str) \div CodeLen) :
                DataBits(Block(encoded_str, b)) = GroupBits(b)
    /\ pc = "decoded" =>
          \A b \in 1..NBlocks : DecodedOf(b) = CharsOf(DataBits(codes[b]))

C8_Witness ==
    /\ pc = "decoded"
    /\ block_length = 8
    /\ string = <<65>>
    /\ DataBits(encoded_str) = <<0, 1, 0, 0, 0, 0, 0, 1>>
    /\ decoded_str = CharsOf(DataBits(codes[1]))

\* C9: with a block length n > 8 that is a multiple of 8 and a text whose
\* length leaves r > 0 characters for the final group, the final group's
\* bits are padded with zeros on the left to n bits, and decoding the
\* unchanged output gives the text with n/8 - r characters of code point 0
\* inserted before its final r characters.
C9_ShortFinalGroup ==
    LET delta == block_length \div 8
        r     == Len(string) % delta
        last  == Len(encoded_str) \div CodeLen
    IN  (/\ pc \in {"encoded", "decoded"}
         /\ block_length % 8 = 0
         /\ block_length > 8
         /\ r > 0)
        => /\ DataBits(Block(encoded_str, last)) =
                Zeros(block_length - 8 * r)
                    \o CharsBits(SubSeq(string, Len(string) - r + 1, Len(string)))
           /\ (pc = "decoded" /\ flips = {}) =>
                decoded_str =
                    SubSeq(string, 1, Len(string) - r)
                        \o Zeros(delta - r)
                        \o SubSeq(string, Len(string) - r + 1, Len(string))

C9_Witness ==
    /\ pc = "decoded"
    /\ flips = {}
    /\ block_length = 16
    /\ string = <<65, 190, 255>>
    /\ decoded_str = <<65, 190, 0, 255>>

\* C10: with two distinct bits p, q of an emitted block flipped, the
\* decoder computes the syndrome value p XOR q, which is not 0, never
\* reports "no error", reports the block uncorrectable exactly when
\* p XOR q >= n+k, and otherwise flips the bit at position p XOR q.
C10_DoubleError ==
    pc = "decoded" =>
        \A b \in 1..NBlocks : \A p, q \in FlipsIn(b) :
            (p # q /\ FlipsIn(b) = {p, q}) =>
                /\ report[b].index = Xor(p, q)
                /\ Xor(p, q) # 0
                /\ report[b].status # "none"
                /\ report[b].status = "uncorrectable" <=> Xor(p, q) >= CodeLen
                /\ Xor(p, q) < CodeLen =>
                      /\ report[b].status = "fixed"
                      /\ Xor(p, q) \notin {p, q}
                      /\ codes[b] = [Block(received, b) EXCEPT
                                        ![Xor(p, q)] = 1 - Block(received, b)[Xor(p, q)]]

C10_Witness ==
    /\ pc = "decoded"
    /\ \E b \in 1..NBlocks : \E p, q \in FlipsIn(b) :
          /\ p # q
          /\ FlipsIn(b) = {p, q}
          /\ Xor(p, q) < CodeLen
          /\ report[b] = [status |-> "fixed", index |-> Xor(p, q)]

====
